---- MODULE Spec2Model ----
(***************************************************************************)
(* Model of links-to-epub (src/main.py): a FastAPI application that        *)
(* converts submitted URLs, keeps a JSON ledger (state.json) of the        *)
(* submissions and regenerates RSS / Atom / EPUB artifacts from it.        *)
(*                                                                         *)
(* FastAPI runs the synchronous handlers in a thread pool, so requests     *)
(* interleave at every file-system access.  Each process of the model is   *)
(* one worker thread; each action is one step of a handler between two     *)
(* accesses to shared state (the files of data_dir, the clock).            *)
(***************************************************************************)
EXTENDS Integers, Sequences, FiniteSets, TLC

\* ------------------------------------------------------------------ bounds
\* Number of requests the workers start when requests overlap.
MaxRequests == 2
\* Number of requests the workers start when they come one after another.
MaxSeqRequests == 4
\* Number of submissions of the workload that varies titles and document names.
MaxTitleRequests == 2
\* Largest value of the clock datetime.now(UTC) reads.
MaxClock == 1
\* Largest number of lines of a Markdown text given to
\* enforce_min_heading_level on its own.
MaxLines == 2

\* Worker threads of the server.
Procs == {"w1", "w2"}
\* URLs the clients submit.
URLs == {"u1", "u2", "u3"}
\* Titles a client may send with a submission; "" is an absent or empty title.
ReqTitles == {"", "Given"}
\* What get_title scrapes from the page; "" is a <title> without a string.
PageTitles == {"", "Page"}
\* Names docling gives a converted document: "file" when the URL has no file
\* name, otherwise the file name or the title it found ("Untitled" included).
DocNames == {"file", "Untitled", "Doc"}
\* Exported bodies of a converted document.
Bodies == {"b1"}
\* Formats of GET /feed/{fmt}; "bogus" stands for any other path segment.
Fmts == {"rss", "atom", "epub"}
AnyFmt == Fmts \cup {"bogus"}
Kinds == {"submit", "list", "feed", "refresh", "clear"}

VARIABLES
    stateFile,  \* data_dir/state.json
    htmlFiles,  \* data_dir/<id>.html, by id
    mdFiles,    \* data_dir/<id>.md, by id
    feedMd,     \* data_dir/feed.md
    feedEpub,   \* data_dir/feed.epub
    feedRss,    \* data_dir/feed.rss
    feedAtom,   \* data_dir/feed.atom
    clock,      \* the wall clock
    pc,         \* each worker's position in its handler
    req,        \* each worker's request
    document,   \* submit: the converted document
    state,      \* each worker's RssState object
    success,    \* convert_to_epub: the value convertext.convert returned
    resp,       \* each worker's response
    started,    \* requests started so far
    completed,  \* history: URLs whose submission was answered 200
    prevFile,   \* history: the ledger in state.json when the last save began
    headings    \* a call of enforce_min_heading_level on its own

vars == <<stateFile, htmlFiles, mdFiles, feedMd, feedEpub, feedRss, feedAtom,
          clock, pc, req, document, state, success, resp, started,
          completed, prevFile, headings>>

raw == <<htmlFiles, mdFiles>>
feeds == <<feedMd, feedEpub, feedRss, feedAtom>>
files == <<raw, feeds>>
locals == <<req, document, state, success>>
hist == <<completed, prevFile>>

\* ------------------------------------------------------------------ values
\* md5(url).hexdigest(): distinct URLs of the model have distinct digests.
md5sum(url) ==
    CASE url = "u1" -> "dfd2"
      [] url = "u2" -> "9a5f"
      [] url = "u3" -> "07c1"

\* submit: request_id = f"req-{md5sum(req.url)}"
RequestId(url) == "req-" \o md5sum(url)

Ids == {RequestId(u) : u \in URLs}

RssEntry(id, title, link, content) ==
    [id |-> id, title |-> title, original_link |-> link, content |-> content]

\* RssState(): a ledger with no entries.
RssState(now) == [updated |-> now, entries |-> <<>>]

\* A file system path that holds no file / an artifact that was not written.
NoFile == "none"
Ledger(kind, st) == [kind |-> kind, updated |-> st.updated, entries |-> st.entries]
Absent == Ledger("absent", RssState(0))
\* state.json after a save wrote over the text of another, longer save that
\* ended after this one had truncated the file: the new text followed by the
\* tail of the old one, which does not parse.
Corrupt == Ledger("corrupt", RssState(0))
\* state.json between open(path, "w"), which truncates it, and the end of the
\* write: empty or a prefix of the JSON text, neither of which parses.
Torn == Ledger("torn", RssState(0))
Parsed(file) == [updated |-> file.updated, entries |-> file.entries]
\* What the history keeps of a ledger file: its timestamp and its ids in order.
Summary(file) ==
    [kind |-> file.kind, updated |-> file.updated,
     ids |-> [i \in 1..Len(file.entries) |-> file.entries[i].id]]

NoArtifact == [exists |-> FALSE, updated |-> 0, items |-> <<>>]
Artifact(updated, items) == [exists |-> TRUE, updated |-> updated, items |-> items]

NoReq == [kind |-> "none", url |-> "", title |-> "", fmt |-> ""]
NoDoc == [name |-> "", body |-> ""]
NoState == RssState(0)
NoResp == [status |-> 0, error |-> ""]
Response(status, error) == [status |-> status, error |-> error]

\* A line of Markdown text: indent leading spaces, then hashes "#" characters,
\* then space (spaces or tabs, or nothing), then rest up to the end of the line.
Line(indent, hashes, space, rest) ==
    [indent |-> indent, hashes |-> hashes, space |-> space, rest |-> rest]
\* The line that opens or closes a fenced code block.
Fence == Line(0, 0, "", "~~~")
\* A Markdown file of the data directory, and the path of one that is missing.
MdFile(lines) == [exists |-> TRUE, lines |-> lines]
NoMd == [exists |-> FALSE, lines |-> <<>>]

IdsOf(entries) == {entries[i].id : i \in 1..Len(entries)}
Positions(entries, id) == {i \in 1..Len(entries) : entries[i].id = id}

\* ------------------------------------------------------------ RssState.add_entry
\* Mutation: the duplicate is not popped.
PopNothing(entries, idx) == entries

\* Mutation: the entry is appended instead of inserted.
InsertAtEnd(entries, idx, entry) == entries \o <<entry>>

\* list.pop(idx), with idx counted from 0.
Pop(entries, idx) ==
    SubSeq(entries, 1, idx) \o SubSeq(entries, idx + 2, Len(entries))

\* list.insert(idx, entry), with idx counted from 0 and not beyond the end.
Insert(entries, idx, entry) ==
    SubSeq(entries, 1, idx) \o <<entry>> \o SubSeq(entries, idx + 1, Len(entries))

\* The for loop of add_entry: the list iterator is at index idx of the list as
\* it is now (pop shortens the list under the iterator).
RECURSIVE AddEntryLoop(_, _, _, _)
AddEntryLoop(entries, entry, idx, insert_at) ==
    IF idx >= Len(entries)
    THEN Insert(entries, insert_at, entry)
    ELSE IF entries[idx + 1].id = entry.id
         THEN AddEntryLoop(Pop(entries, idx), entry, idx + 1, idx)
         ELSE AddEntryLoop(entries, entry, idx + 1, insert_at)

\* Mutation: the new entry is put in front of the others, duplicate or not.
Prepend(entries, entry) == <<entry>> \o entries

\* Mutation: a duplicate is removed and the new entry moved to the front.
MoveToFront(entries, entry) ==
    <<entry>> \o SelectSeq(entries, LAMBDA e : e.id # entry.id)

add_entry(entries, entry) == AddEntryLoop(entries, entry, 0, 0)

\* ------------------------------------------------- enforce_min_heading_level
\* heading_re: the line starts with one to six "#", then spaces or tabs, then
\* text with a character that is not white space.
HeadingRe(line) ==
    /\ line.indent = 0
    /\ line.hashes \in 1..6
    /\ line.space # ""
    /\ line.rest # ""

\* repl: the matched line with its hashes raised to min_level, six at most.
repl(line, min_level) ==
    LET level == IF line.hashes < min_level THEN min_level ELSE line.hashes
    IN [line EXCEPT !.hashes = IF level < 6 THEN level ELSE 6]

\* heading_re.sub(repl, md), or the ValueError raised for a bad min_level.
enforce_min_heading_level(md, min_level) ==
    IF ~(1 <= min_level /\ min_level <= 6)
    THEN [error |-> "ValueError", md |-> <<>>]
    ELSE [error |-> "",
          md |-> [i \in 1..Len(md) |->
                    IF HeadingRe(md[i]) THEN repl(md[i], min_level) ELSE md[i]]]

\* A call of enforce_min_heading_level before it runs, and no call.
Call(md, min_level) ==
    [called |-> FALSE, md |-> md, min_level |-> min_level,
     out |-> [error |-> "", md |-> <<>>]]
NoCall == Call(<<>>, 2)

\* ------------------------------------------------------------------ Init
\* The server starts on a data directory without state.json, or on one whose
\* state.json an earlier run left unparseable (see WriteOver).
InitServer ==
    /\ stateFile \in {Absent, Corrupt}
    /\ htmlFiles = [i \in Ids |-> NoFile]
    /\ mdFiles = [i \in Ids |-> NoMd]
    /\ feedMd = NoArtifact
    /\ feedEpub = NoArtifact
    /\ feedRss = NoArtifact
    /\ feedAtom = NoArtifact
    /\ clock = 0
    /\ pc = [p \in Procs |-> "idle"]
    /\ req = [p \in Procs |-> NoReq]
    /\ document = [p \in Procs |-> NoDoc]
    /\ state = [p \in Procs |-> NoState]
    /\ success = [p \in Procs |-> TRUE]
    /\ resp = [p \in Procs |-> NoResp]
    /\ started = 0
    /\ completed = {}
    /\ prevFile = Summary(Absent)

\* The server makes its calls of enforce_min_heading_level in
\* merge_markdowns_into_epub; there is no call on its own.
Init == InitServer /\ headings = NoCall

\* ------------------------------------------------------------ pure helpers
\* Mutation: save_as_markdown writes no file.
NotExported(doc) == NoMd

\* document.save_as_html / document.save_as_markdown: the exported texts.
ExportHtml(doc) == "<html>" \o doc.body
ExportMd(doc) == MdFile(<<Line(0, 1, " ", doc.name), Line(0, 0, "", doc.body)>>)

\* get_title: the <title> string of the page, or "Untitled" when the page has
\* no <title> or fetching it raised.
GetTitleResults == PageTitles \cup {"Untitled"}

\* Mutation: every document name is taken for a title.
AnyName(docName) == TRUE

\* submit, line 296: the document name is a title.
Usable(docName) == docName \notin {"file", "Untitled"}

\* What parsing state.json raises: it is empty or cut short (a save is under
\* way), or it is whole and is not a ledger.
ParseError(file) == IF file.kind = "torn" THEN "state_torn" ELSE "state_corrupt"

\* Mutation: a state.json that does not parse is taken for a missing one.
LoadMasking(file, now) ==
    IF file.kind = "ledger" THEN [error |-> "", state |-> Parsed(file)]
    ELSE [error |-> "", state |-> RssState(now)]

\* update_rss_state, step 1: the ledger it starts from, or the error it raises.
LoadForUpdate(file, now) ==
    IF file.kind = "absent" THEN [error |-> "", state |-> RssState(now)]
    ELSE IF file.kind = "ledger" THEN [error |-> "", state |-> Parsed(file)]
    ELSE [error |-> ParseError(file), state |-> NoState]

\* Mutation: a missing state.json is read as an empty ledger.
ReadOrEmpty(file) ==
    IF file.kind \in {"absent", "ledger"}
    THEN [status |-> 0, error |-> "", state |-> Parsed(file)]
    ELSE [status |-> 500, error |-> ParseError(file), state |-> NoState]

\* read_state_or_404: the ledger, or the status of the HTTPException (404) or
\* of the validation error the parse raises (500).
ReadStateOr404(file) ==
    IF file.kind = "absent" THEN [status |-> 404, error |-> "not_found", state |-> NoState]
    ELSE IF file.kind = "ledger" THEN [status |-> 0, error |-> "", state |-> Parsed(file)]
    ELSE [status |-> 500, error |-> ParseError(file), state |-> NoState]

\* Mutation: the entries are taken in the order of the ledger.
LedgerOrder(s) == s

\* reversed(state.entries)
Reversed(s) == [i \in 1..Len(s) |-> s[Len(s) + 1 - i]]

\* merge_markdowns_into_epub: the section written for entry e, md the text of
\* its Markdown file: "# <title>", the "Source link" line, and the text with
\* its headings at level 2 or lower.
Section(e, md) ==
    [heading |-> Line(0, 1, " ", e.title), link |-> e.original_link,
     content |-> enforce_min_heading_level(md, 2).md]

\* merge_markdowns_into_epub: the ids whose Markdown file is missing.
MissingMd(entries) == {i \in IdsOf(entries) : ~mdFiles[i].exists}

\* merge_markdowns_into_epub: the sections of feed.md, oldest entry first.
Digest(entries) ==
    LET rev == Reversed(entries)
    IN [i \in 1..Len(rev) |-> Section(rev[i], mdFiles[rev[i].id].lines)]

\* _state_to_feed: one feed entry per ledger entry, in ledger order.
FeedItems(entries) ==
    [i \in 1..Len(entries) |->
        [id |-> entries[i].id, title |-> entries[i].title,
         link |-> entries[i].original_link, content |-> entries[i].content,
         summary |-> entries[i].content]]

\* The status of a handler that ran to its return statement.
OkStatus(kind) == IF kind \in {"refresh", "clear"} THEN 204 ELSE 200

\* ------------------------------------------------------------------ steps
\* The handler of worker p returns or raises: its locals are dropped.
Finish(p, r) ==
    /\ pc' = [pc EXCEPT ![p] = "done"]
    /\ resp' = [resp EXCEPT ![p] = r]
    /\ req' = [req EXCEPT ![p] = NoReq]
    /\ document' = [document EXCEPT ![p] = NoDoc]
    /\ state' = [state EXCEPT ![p] = NoState]
    /\ success' = [success EXCEPT ![p] = TRUE]
    /\ UNCHANGED headings

\* Worker p goes on to the step at label.
Goto(p, label) ==
    /\ pc' = [pc EXCEPT ![p] = label]
    /\ UNCHANGED <<resp, headings>>

\* Mutation: GET /feed/{fmt} regenerates the artifacts before it answers.
FirstStepRefreshing(kind) ==
    CASE kind = "submit" -> "convert"
      [] kind = "list" -> "list"
      [] kind = "feed" -> "merge"
      [] kind = "refresh" -> "refresh"
      [] kind = "clear" -> "clear"

FirstStep(kind) ==
    CASE kind = "submit" -> "convert"
      [] kind = "list" -> "list"
      [] kind = "feed" -> "feed"
      [] kind = "refresh" -> "refresh"
      [] kind = "clear" -> "clear"

\* The requests of a workload: how many, the URLs and titles submitted, and
\* the document names the conversions return.
Overlapping ==
    [max |-> MaxRequests, kinds |-> Kinds, urls |-> {"u1", "u2"},
     titles |-> {""}, names |-> {"file"}, scraped |-> {""}]
OneByOne ==
    [max |-> MaxSeqRequests, kinds |-> {"submit"}, urls |-> URLs,
     titles |-> ReqTitles, names |-> {"file"}, scraped |-> {"Page"}]
Titled ==
    [max |-> MaxTitleRequests, kinds |-> {"submit"}, urls |-> {"u1"},
     titles |-> ReqTitles, names |-> DocNames, scraped |-> GetTitleResults]

\* A client request of the workload reaches worker p.
Begin(p, load) ==
    /\ pc[p] \in {"idle", "done"}
    /\ started < load.max
    /\ started' = started + 1
    /\ \E kind \in load.kinds :
        /\ \E url \in (IF kind = "submit" THEN load.urls ELSE {""}),
              title \in (IF kind = "submit" THEN load.titles ELSE {""}),
              fmt \in (IF kind = "feed" THEN AnyFmt ELSE {""}) :
              req' = [req EXCEPT ![p] =
                        [kind |-> kind, url |-> url, title |-> title, fmt |-> fmt]]
        /\ pc' = [pc EXCEPT ![p] = FirstStep(kind)]
    /\ resp' = [resp EXCEPT ![p] = NoResp]
    /\ UNCHANGED <<stateFile, files, clock, document, state, success, hist, headings>>

\* Mutation: convert_url raises after an <id>.html was written.
ConvertUrlFailsLate(p) ==
    /\ pc[p] = "convert"
    /\ htmlFiles' = [htmlFiles EXCEPT ![RequestId(req[p].url)] = "<html>"]
    /\ Finish(p, Response(500, "conversion"))
    /\ UNCHANGED <<stateFile, mdFiles, feeds, clock, started, hist>>

\* submit: convert_url raises.
ConvertUrlFails(p) ==
    /\ pc[p] = "convert"
    /\ Finish(p, Response(500, "conversion"))
    /\ UNCHANGED <<stateFile, files, clock, started, hist>>

\* submit: convert_url returns the document.
ConvertUrl(p, load) ==
    /\ pc[p] = "convert"
    /\ \E name \in load.names, body \in Bodies :
        document' = [document EXCEPT ![p] = [name |-> name, body |-> body]]
    /\ Goto(p, "save_html")
    /\ UNCHANGED <<stateFile, files, clock, req, state, success, started, hist>>

\* submit: document.save_as_html(html).
SaveHtml(p) ==
    /\ pc[p] = "save_html"
    /\ htmlFiles' = [htmlFiles EXCEPT ![RequestId(req[p].url)] = ExportHtml(document[p])]
    /\ Goto(p, "title")
    /\ UNCHANGED <<stateFile, mdFiles, feeds, clock, locals, started, hist>>

\* submit, lines 295-297: a request without a title takes the document name
\* when that is a title, and otherwise goes on to call get_title.
Title(p) ==
    /\ pc[p] = "title"
    /\ IF req[p].title # ""
       THEN /\ Goto(p, "untitled")
            /\ UNCHANGED req
       ELSE IF Usable(document[p].name)
       THEN /\ req' = [req EXCEPT ![p].title = document[p].name]
            /\ Goto(p, "untitled")
       ELSE /\ Goto(p, "get_title")
            /\ UNCHANGED req
    /\ UNCHANGED <<stateFile, files, clock, document, state, success, started, hist>>

\* submit, lines 298-299: req.title = get_title(req.url).
GetTitle(p, load) ==
    /\ pc[p] = "get_title"
    /\ \E scraped \in load.scraped : req' = [req EXCEPT ![p].title = scraped]
    /\ Goto(p, "untitled")
    /\ UNCHANGED <<stateFile, files, clock, document, state, success, started, hist>>

\* submit, lines 300-301: a title that is still empty becomes "Untitled".
Untitled(p) ==
    /\ pc[p] = "untitled"
    /\ req' = [req EXCEPT ![p].title = IF @ = "" THEN "Untitled" ELSE @]
    /\ Goto(p, "save_md")
    /\ UNCHANGED <<stateFile, files, clock, document, state, success, started, hist>>

\* submit: document.save_as_markdown(markdown).
SaveMd(p) ==
    /\ pc[p] = "save_md"
    /\ mdFiles' = [mdFiles EXCEPT ![RequestId(req[p].url)] = ExportMd(document[p])]
    /\ Goto(p, "load")
    /\ UNCHANGED <<stateFile, htmlFiles, feeds, clock, locals, started, hist>>

\* update_rss_state, step 1: load state.json, or start an empty ledger.
LoadState(p) ==
    /\ pc[p] = "load"
    /\ LET r == LoadForUpdate(stateFile, clock)
       IN IF r.error = ""
          THEN /\ state' = [state EXCEPT ![p] = r.state]
               /\ Goto(p, "add")
               /\ UNCHANGED <<req, document, success>>
          ELSE Finish(p, Response(500, r.error))
    /\ UNCHANGED <<stateFile, files, clock, started, hist>>

\* update_rss_state, step 2: read <id>.html and upsert the entry.
AddEntry(p) ==
    /\ pc[p] = "add"
    /\ LET id == RequestId(req[p].url)
       IN IF htmlFiles[id] = NoFile
          THEN Finish(p, Response(500, "missing_html"))
          ELSE /\ state' = [state EXCEPT ![p].entries =
                              add_entry(@, RssEntry(id, req[p].title, req[p].url,
                                                    htmlFiles[id]))]
               /\ Goto(p, "stamp")
               /\ UNCHANGED <<req, document, success>>
    /\ UNCHANGED <<stateFile, files, clock, started, hist>>

\* update_rss_state, step 3: state.updated = datetime.now(UTC).  The clock
\* may have advanced since it was last read.
Stamp(p) ==
    /\ pc[p] = "stamp"
    /\ \E now \in clock..MaxClock :
        /\ clock' = now
        /\ state' = [state EXCEPT ![p].updated = now]
    /\ Goto(p, "open_w")
    /\ UNCHANGED <<stateFile, files, req, document, success, started, hist>>

\* update_rss_state, step 4: open(path, "w") truncates state.json.
OpenW(p) ==
    /\ pc[p] = "open_w"
    /\ prevFile' = IF stateFile.kind = "ledger" THEN Summary(stateFile) ELSE prevFile
    /\ stateFile' = Torn
    /\ Goto(p, "write")
    /\ UNCHANGED <<files, clock, locals, started, completed>>

\* update_rss_state, step 4: the JSON text is written and the file closed.
Write(p) ==
    /\ pc[p] = "write"
    /\ stateFile' = Ledger("ledger", state[p])
    /\ Goto(p, "merge")
    /\ UNCHANGED <<files, clock, locals, started, hist>>

\* update_rss_state, step 4, when another save ended between this one's
\* open and its write and left a longer text: the tail of that text stays
\* behind the new one.  Which text is longer depends on the lengths of the
\* titles, URLs and contents, which are not modelled: whenever the file is
\* not empty, Write and WriteOver are both possible.
WriteOver(p) ==
    /\ pc[p] = "write"
    /\ stateFile.kind # "torn"
    /\ stateFile' = Corrupt
    /\ Goto(p, "merge")
    /\ UNCHANGED <<files, clock, locals, started, hist>>

\* merge_markdowns_into_epub, up to the write of feed.md.
Merge(p) ==
    /\ pc[p] = "merge"
    /\ IF MissingMd(state[p].entries) # {}
       THEN /\ Finish(p, Response(500, "missing_md"))
            /\ UNCHANGED feedMd
       ELSE /\ feedMd' = Artifact(state[p].updated, Digest(state[p].entries))
            /\ Goto(p, "epub")
            /\ UNCHANGED locals
    /\ UNCHANGED <<stateFile, raw, feedEpub, feedRss, feedAtom, clock, started, hist>>

\* convert_to_epub(feed.md): convertext.convert returns success and, when it
\* succeeded, has written feed.epub from the feed.md it found.
ConvertToEpub(p) ==
    /\ pc[p] = "epub"
    /\ \E ok \in (IF feedMd.exists THEN BOOLEAN ELSE {FALSE}) :
        /\ success' = [success EXCEPT ![p] = ok]
        /\ feedEpub' = IF ok THEN feedMd ELSE feedEpub
    /\ Goto(p, "rss")
    /\ UNCHANGED <<stateFile, raw, feedMd, feedRss, feedAtom, clock, req, document,
                   state, started, hist>>

\* refresh_feeds: _state_to_feed(state, "rss") reads state.json again and
\* feed.rss is written from what it read.
FeedRss(p) ==
    /\ pc[p] = "rss"
    /\ IF stateFile.kind = "ledger"
       THEN /\ feedRss' = Artifact(stateFile.updated, FeedItems(stateFile.entries))
            /\ Goto(p, "atom")
            /\ UNCHANGED locals
       ELSE /\ Finish(p, Response(500, ParseError(stateFile)))
            /\ UNCHANGED feedRss
    /\ UNCHANGED <<stateFile, raw, feedMd, feedEpub, feedAtom, clock, started, hist>>

\* refresh_feeds: _state_to_feed(state, "atom"), feed.atom is written, and
\* the handler returns.
FeedAtom(p) ==
    /\ pc[p] = "atom"
    /\ IF stateFile.kind = "ledger"
       THEN /\ feedAtom' = Artifact(stateFile.updated, FeedItems(stateFile.entries))
            /\ Finish(p, Response(OkStatus(req[p].kind), ""))
            /\ completed' = IF req[p].kind = "submit"
                            THEN completed \cup {req[p].url} ELSE completed
       ELSE /\ Finish(p, Response(500, ParseError(stateFile)))
            /\ UNCHANGED <<feedAtom, completed>>
    /\ UNCHANGED <<stateFile, raw, feedMd, feedEpub, feedRss, clock, started, prevFile>>

\* GET /: read_state_or_404.
ListEntries(p) ==
    /\ pc[p] = "list"
    /\ LET r == ReadStateOr404(stateFile)
       IN IF r.status = 0
          THEN /\ state' = [state EXCEPT ![p] = r.state]
               /\ Goto(p, "redact")
               /\ UNCHANGED <<req, document, success>>
          ELSE Finish(p, Response(r.status, r.error))
    /\ UNCHANGED <<stateFile, files, clock, started, hist>>

\* GET /: entry.content = "-" for every entry of the ledger object.
Redact(p) ==
    /\ pc[p] = "redact"
    /\ state' = [state EXCEPT ![p].entries =
                    [i \in 1..Len(@) |-> [@[i] EXCEPT !.content = "-"]]]
    /\ Goto(p, "list_return")
    /\ UNCHANGED <<stateFile, files, clock, req, document, success, started, hist>>

\* GET /: the ledger object is the body of the response.
ListReturn(p) ==
    /\ pc[p] = "list_return"
    /\ Finish(p, Response(200, ""))
    /\ UNCHANGED <<stateFile, files, clock, started, hist>>

\* GET /feed/{fmt}: the path parameter is validated against the Literal of
\* the signature, then read_state_or_404.
FeedRead(p) ==
    /\ pc[p] = "feed"
    /\ IF req[p].fmt \notin Fmts
       THEN Finish(p, Response(422, "validation"))
       ELSE LET r == ReadStateOr404(stateFile)
            IN IF r.status = 0
               THEN /\ state' = [state EXCEPT ![p] = r.state]
                    /\ Goto(p, "feed_build")
                    /\ UNCHANGED <<req, document, success>>
               ELSE Finish(p, Response(r.status, r.error))
    /\ UNCHANGED <<stateFile, files, clock, started, hist>>

\* GET /feed/{fmt}: _state_to_feed reads state.json again; the feed built
\* from it is the body of the response.
FeedBuild(p) ==
    /\ pc[p] = "feed_build"
    /\ Finish(p, IF stateFile.kind = "ledger" THEN Response(200, "")
                 ELSE Response(500, ParseError(stateFile)))
    /\ UNCHANGED <<stateFile, files, clock, started, hist>>

\* POST /refresh-feeds: read_state_or_404.
RefreshRead(p) ==
    /\ pc[p] = "refresh"
    /\ LET r == ReadStateOr404(stateFile)
       IN IF r.status = 0
          THEN /\ state' = [state EXCEPT ![p] = r.state]
               /\ Goto(p, "unlink")
               /\ UNCHANGED <<req, document, success>>
          ELSE Finish(p, Response(r.status, r.error))
    /\ UNCHANGED <<stateFile, files, clock, started, hist>>

\* POST /refresh-feeds: feed.md, feed.rss and feed.atom are unlinked.
Unlink(p) ==
    /\ pc[p] = "unlink"
    /\ feedMd' = NoArtifact
    /\ feedRss' = NoArtifact
    /\ feedAtom' = NoArtifact
    /\ Goto(p, "merge")
    /\ UNCHANGED <<stateFile, raw, feedEpub, clock, locals, started, hist>>

\* DELETE /: nothing is cleared.
Clear(p) ==
    /\ pc[p] = "clear"
    /\ Finish(p, Response(204, ""))
    /\ UNCHANGED <<stateFile, files, clock, started, hist>>

Submit(p, load) ==
    \/ ConvertUrlFails(p)
    \/ ConvertUrl(p, load)
    \/ SaveHtml(p)
    \/ Title(p)
    \/ GetTitle(p, load)
    \/ Untitled(p)
    \/ SaveMd(p)
    \/ LoadState(p)
    \/ AddEntry(p)
    \/ Stamp(p)
    \/ OpenW(p)
    \/ Write(p)

RefreshFeeds(p) ==
    \/ Merge(p)
    \/ ConvertToEpub(p)
    \/ FeedRss(p)
    \/ FeedAtom(p)

Reads(p) ==
    \/ ListEntries(p)
    \/ Redact(p)
    \/ ListReturn(p)
    \/ FeedRead(p)
    \/ FeedBuild(p)
    \/ RefreshRead(p)
    \/ Unlink(p)
    \/ Clear(p)

Step(p, load) == Submit(p, load) \/ RefreshFeeds(p) \/ Reads(p)

\* The thread pool: requests overlap.
Next == \E p \in Procs : Begin(p, Overlapping) \/ Step(p, Overlapping) \/ WriteOver(p)

Spec == Init /\ [][Next]_vars

\* A single client that submits and waits for each response before its next
\* request: one worker handles the submissions one after another.
NextSeq ==
    \/ Begin("w1", OneByOne)
    \/ Submit("w1", OneByOne)
    \/ RefreshFeeds("w1")

SpecSeq == Init /\ [][NextSeq]_vars

\* A single client whose submissions vary in title, in the name docling gives
\* the document and in what get_title finds on the page.
NextTitled ==
    \/ Begin("w1", Titled)
    \/ Submit("w1", Titled)
    \/ RefreshFeeds("w1")

SpecTitled == Init /\ [][NextTitled]_vars

\* The environment: a raw Markdown file is lost from the data directory (an
\* operator's cleanup, a restored backup).  No handler removes one.
LoseMarkdown(i) ==
    /\ mdFiles[i].exists
    /\ mdFiles' = [mdFiles EXCEPT ![i] = NoMd]
    /\ UNCHANGED <<stateFile, htmlFiles, feeds, clock, pc, locals, resp, started, hist,
                   headings>>

NextEnv == Next \/ \E i \in Ids : LoseMarkdown(i)

SpecEnv == Init /\ [][NextEnv]_vars

\* enforce_min_heading_level on its own: Markdown texts of up to MaxLines
\* lines, with and without "#", indentation, white space after the "#" and
\* text, and with fenced code blocks; min_level in and out of 1..6.
Lines ==
    {Line(i, h, s, r) : i \in {0, 1}, h \in {0, 1, 2, 6, 7}, s \in {"", " "},
                        r \in {"", "text"}} \cup {Fence}
Texts == UNION {[1..n -> Lines] : n \in 0..MaxLines}
MinLevels == 0..7

InitHeadings ==
    /\ InitServer
    /\ headings \in {Call(md, min_level) : md \in Texts, min_level \in MinLevels}

\* The call runs.
EnforceMinHeadingLevel ==
    /\ ~headings.called
    /\ headings' = [headings EXCEPT
                      !.called = TRUE,
                      !.out = enforce_min_heading_level(headings.md, headings.min_level)]
    /\ UNCHANGED <<stateFile, files, clock, pc, locals, resp, started, hist>>

NextHeadings == EnforceMinHeadingLevel

SpecHeadings == InitHeadings /\ [][NextHeadings]_vars

\* ------------------------------------------------------------------ claims
NoDuplicateIds(entries) ==
    \A i, j \in 1..Len(entries) : entries[i].id = entries[j].id => i = j

\* The step by which worker p leaves label from.
Leaves(p, from) == pc[p] = from /\ pc'[p] # from

\* The step by which the handler of worker p ends with the given status.
Answers(p, status) == pc[p] # "done" /\ pc'[p] = "done" /\ resp'[p].status = status

\* C1: whatever submissions ran, one after another or overlapping, the ledger
\* persisted in state.json never holds two entries with the same id.
C1_UniqueIds == NoDuplicateIds(stateFile.entries)

\* C1: a submission of a URL is saved over a ledger that held that URL alone.
C1_Witness ==
    /\ stateFile.kind = "ledger"
    /\ prevFile.kind = "ledger"
    /\ Len(stateFile.entries) = 1
    /\ prevFile.ids = <<stateFile.entries[1].id>>

\* C2: when a submission is answered 200 for a URL that an earlier submission
\* was answered 200 for, the persisted ledger holds exactly one entry with the
\* id of that URL, that entry links to the URL, and the ledger is as long as
\* the ledger the save replaced, which held that id already.
C2_Resubmission ==
    [][\A p \in Procs :
         (Answers(p, 200) /\ req[p].kind = "submit" /\ req[p].url \in completed)
         => LET id == RequestId(req[p].url)
                at == Positions(stateFile'.entries, id)
            IN /\ stateFile'.kind = "ledger"
               /\ Cardinality(at) = 1
               /\ \A i \in at : stateFile'.entries[i].original_link = req[p].url
               /\ prevFile.kind = "ledger"
               /\ id \in {prevFile.ids[i] : i \in 1..Len(prevFile.ids)}
               /\ Len(stateFile'.entries) = Len(prevFile.ids)]_vars

\* C2: a resubmission was answered 200 and left a ledger of two or more
\* entries as long as the one it replaced.
C2_Witness ==
    /\ pc["w1"] = "done"
    /\ resp["w1"].status = 200
    /\ stateFile.kind = "ledger"
    /\ prevFile.kind = "ledger"
    /\ Len(stateFile.entries) >= 2
    /\ Len(prevFile.ids) = Len(stateFile.entries)

\* The entry update_rss_state builds for the request of worker p.
EntryOf(p) ==
    LET id == RequestId(req[p].url)
    IN RssEntry(id, req[p].title, req[p].url, htmlFiles[id])

\* C3: when add_entry is given an entry whose id is in the ledger at position
\* pos, the new entry is at position pos afterwards and every other position
\* holds the entry it held before.
C3_ReplaceInPlace ==
    [][\A p \in Procs :
         Leaves(p, "add") /\ pc'[p] = "stamp"
         => LET old == state[p].entries
                new == state'[p].entries
            IN \A pos \in Positions(old, EntryOf(p).id) :
                 /\ Len(new) = Len(old)
                 /\ new[pos] = EntryOf(p)
                 /\ \A i \in 1..Len(old) : i # pos => new[i] = old[i]]_vars

\* C3: add_entry has replaced the second of three entries by one with
\* another title; state.json still holds the entry it replaced.
C3_Witness ==
    \E p \in Procs :
      /\ pc[p] = "stamp"
      /\ stateFile.kind = "ledger"
      /\ Len(stateFile.entries) = 3
      /\ Len(state[p].entries) = 3
      /\ stateFile.entries[2].id = RequestId(req[p].url)
      /\ state[p].entries[2] = EntryOf(p)
      /\ state[p].entries[2].title # stateFile.entries[2].title

\* C4: when add_entry is given an entry whose id is not in the ledger, the
\* new entry is first and the previous entries follow it in their order, so
\* the ledger is one longer.
C4_InsertAtFront ==
    [][\A p \in Procs :
         Leaves(p, "add") /\ pc'[p] = "stamp"
         => LET old == state[p].entries
                new == state'[p].entries
            IN EntryOf(p).id \notin IdsOf(old)
               => /\ Len(new) = Len(old) + 1
                  /\ new[1] = EntryOf(p)
                  /\ \A i \in 1..Len(old) : new[i + 1] = old[i]]_vars

\* C4: add_entry has put a third entry in front of the two of state.json.
C4_Witness ==
    \E p \in Procs :
      /\ pc[p] = "stamp"
      /\ stateFile.kind = "ledger"
      /\ Len(stateFile.entries) = 2
      /\ EntryOf(p).id \notin IdsOf(stateFile.entries)
      /\ state[p].entries = <<EntryOf(p)>> \o stateFile.entries

\* C5: no request reads state.json while a save has truncated it and not
\* yet written it: a read finds the ledger of before the save or the one of
\* after it.
C5_AtomicSave == \A p \in Procs : resp[p].error # "state_torn"

\* C6: once the submissions of two different URLs were both answered 200, the
\* persisted ledger holds an entry for each of the two: no save loses the
\* entry of another submission.
C6_NoLostUpdate ==
    \A u, v \in completed :
      (u # v /\ stateFile.kind = "ledger")
      => {RequestId(u), RequestId(v)} \subseteq IdsOf(stateFile.entries)

\* C7: the ledger a save persists has an `updated` no smaller than that of
\* the ledger it replaces.
C7_UpdatedMonotonic ==
    (stateFile.kind = "ledger" /\ prevFile.kind = "ledger")
    => stateFile.updated >= prevFile.updated

\* The labels at which a handler reads state.json.
ReadLabels == {"load", "list", "feed", "feed_build", "refresh", "rss", "atom"}

\* Worker p takes the step that reads state.json.
ReadsLedger(p) ==
    /\ pc[p] \in ReadLabels
    /\ pc'[p] # pc[p]
    /\ pc[p] = "feed" => req[p].fmt \in Fmts

\* C8: when a handler reads a state.json that does not parse, its request
\* ends there with status 500: it goes on with no ledger, empty or other,
\* and state.json and every other file stay as they are.
C8_CorruptionIsFatal ==
    [][\A p \in Procs :
         (ReadsLedger(p) /\ stateFile.kind \in {"corrupt", "torn"})
         => /\ pc'[p] = "done"
            /\ resp'[p].status = 500
            /\ state'[p] = NoState
            /\ stateFile' = stateFile
            /\ files' = files]_vars

\* C8: a submission wrote its raw files, found state.json unparseable and
\* failed; state.json is as it was.
C8_Witness ==
    /\ stateFile = Corrupt
    /\ \E p \in Procs : pc[p] = "done" /\ resp[p].error = "state_corrupt"
    /\ \E i \in Ids : mdFiles[i].exists

\* C9: when the digest cannot be built because the Markdown file of an entry
\* is missing, feed.rss and feed.atom are written from the ledger all the same.
C9_FeedsIsolated ==
    [][\A p \in Procs :
         (Leaves(p, "merge") /\ MissingMd(state[p].entries) # {})
         => /\ feedRss' = Artifact(stateFile.updated, FeedItems(stateFile.entries))
            /\ feedAtom' = Artifact(stateFile.updated, FeedItems(stateFile.entries))]_vars

\* C10: a submission during which convertext.convert returned failure is not
\* answered 200.
C10_EpubFailureReported ==
    [][\A p \in Procs :
         (Leaves(p, "atom") /\ req[p].kind = "submit" /\ ~success[p])
         => resp'[p].status # 200]_vars

\* C11: when DELETE / is answered while state.json holds a ledger, state.json
\* is gone afterwards and so is every raw file and every derived artifact.
C11_ClearRemovesAll ==
    [][\A p \in Procs :
         (Leaves(p, "clear") /\ stateFile.kind = "ledger")
         => /\ stateFile' = Absent
            /\ \A i \in Ids : htmlFiles'[i] = NoFile /\ mdFiles'[i] = NoMd
            /\ feedMd' = NoArtifact /\ feedEpub' = NoArtifact
            /\ feedRss' = NoArtifact /\ feedAtom' = NoArtifact]_vars

C13_DigestOldestFirst ==
    [][\A p \in Procs :
         (Leaves(p, "merge") /\ pc'[p] = "epub")
         => LET entries == state[p].entries
                n == Len(entries)
            IN /\ feedMd'.exists
               /\ Len(feedMd'.items) = n
               /\ \A i \in 1..n :
                    /\ feedMd'.items[i].heading = Line(0, 1, " ", entries[n + 1 - i].title)
                    /\ feedMd'.items[i].link = entries[n + 1 - i].original_link]_vars

\* C13: feed.md was written from a ledger of three entries and starts with
\* the section of the oldest, which the ledger holds last.
C13_Witness ==
    /\ feedMd.exists
    /\ stateFile.kind = "ledger"
    /\ Len(stateFile.entries) = 3
    /\ Len(feedMd.items) = 3
    /\ feedMd.items[1].link = stateFile.entries[3].original_link
    /\ feedMd.items[3].link = stateFile.entries[1].original_link

\* Line i of a Markdown text is inside a fenced code block: an odd number of
\* fence lines precede it.
InCodeBlock(md, i) == Cardinality({j \in 1..(i - 1) : md[j] = Fence}) % 2 = 1

\* Line i of a Markdown text is a heading: outside code blocks, indented by
\* at most three spaces, one to six "#", and then white space or the end of
\* the line.
IsHeading(md, i) ==
    /\ ~InCodeBlock(md, i)
    /\ md[i].indent <= 3
    /\ md[i].hashes \in 1..6
    /\ md[i].space # "" \/ md[i].rest = ""

\* C17: for min_level in 1..6 the result of enforce_min_heading_level has
\* every heading of level L of the text at level max(L, min_level), which is
\* at most 6, with its text as it was, and every other line as it was; with
\* min_level 1 the result is the text; applying the function to the result
\* gives the result; for any other min_level the call raises.
C17_MinHeadingLevel ==
    headings.called
    => LET md == headings.md
           min_level == headings.min_level
           out == headings.out
       IN IF min_level \in 1..6
          THEN /\ out.error = ""
               /\ Len(out.md) = Len(md)
               /\ \A i \in 1..Len(md) :
                    IF IsHeading(md, i)
                    THEN /\ out.md[i].hashes =
                              (IF md[i].hashes < min_level THEN min_level ELSE md[i].hashes)
                         /\ out.md[i].hashes <= 6
                         /\ out.md[i] = [md[i] EXCEPT !.hashes = out.md[i].hashes]
                    ELSE out.md[i] = md[i]
               /\ min_level = 1 => out.md = md
               /\ enforce_min_heading_level(out.md, min_level) = out
          ELSE out.error = "ValueError"

\* Worker p takes a step of its handler.
Steps(p) == pc'[p] # pc[p]

\* C14: while state.json does not exist, GET /feed/rss, GET /feed/atom,
\* GET /feed/epub, GET / and POST /refresh-feeds are answered 404 at their
\* first step, which leaves state.json missing and every raw and derived file
\* as it is.
C14_NotFoundWithoutLedger ==
    [][\A p \in Procs :
         (/\ Steps(p)
          /\ stateFile.kind = "absent"
          /\ \/ pc[p] \in {"list", "refresh"}
             \/ pc[p] = "feed" /\ req[p].fmt \in Fmts)
         => /\ pc'[p] = "done"
            /\ resp'[p].status = 404
            /\ stateFile' = Absent
            /\ files' = files]_vars

\* C14: both workers have answered 404 and the data directory is empty.
C14_Witness ==
    /\ stateFile = Absent
    /\ \A p \in Procs : pc[p] = "done" /\ resp[p].status = 404
    /\ \A i \in Ids : htmlFiles[i] = NoFile /\ ~mdFiles[i].exists
    /\ ~feedMd.exists /\ ~feedEpub.exists /\ ~feedRss.exists /\ ~feedAtom.exists

\* C15: GET /feed/{fmt} with fmt other than rss, atom and epub is answered
\* 400, with or without a ledger.
C15_UnknownFormatIs400 ==
    [][\A p \in Procs :
         (Leaves(p, "feed") /\ req[p].fmt \notin Fmts)
         => pc'[p] = "done" /\ resp'[p].status = 400]_vars

\* C16: no step of GET / or GET /feed/{fmt} changes state.json, a raw file or
\* a derived file, and none leads to convert_url or convert_to_epub; the
\* ledger GET / redacts is the object it parsed, not the file.
C16_ReadsHaveNoEffect ==
    [][\A p \in Procs :
         (Steps(p) /\ req[p].kind \in {"list", "feed"})
         => /\ stateFile' = stateFile
            /\ files' = files
            /\ pc'[p] \notin {"convert", "merge", "epub"}]_vars

\* C16: GET / holds the redacted ledger it is about to return while
\* state.json holds the entry with its content.
C16_Witness ==
    \E p \in Procs :
      /\ pc[p] = "list_return"
      /\ stateFile.kind = "ledger"
      /\ Len(stateFile.entries) = 1
      /\ Len(state[p].entries) = 1
      /\ state[p].entries[1].content = "-"
      /\ stateFile.entries[1].content = htmlFiles[stateFile.entries[1].id]
      /\ stateFile.entries[1].content # "-"

\* C18: the feed.rss and the feed.atom that refresh_feeds(state) writes hold
\* the entries of its state argument, in its order, which are the entries
\* its feed.md was written from.
C18_OneLedgerPerRefresh ==
    [][\A p \in Procs :
         /\ (Leaves(p, "rss") /\ pc'[p] = "atom")
            => feedRss'.items = FeedItems(state[p].entries)
         /\ (Leaves(p, "atom") /\ resp'[p].status \in {200, 204})
            => feedAtom'.items = FeedItems(state[p].entries)]_vars

\* C19: every entry of the ledger in state.json has its <id>.html and its
\* <id>.md in the data directory.
C19_RawFilesBeforeEntry ==
    \A i \in IdsOf(stateFile.entries) : htmlFiles[i] # NoFile /\ mdFiles[i].exists

\* C19: state.json holds the entry of one submission, with its raw files,
\* while an overlapping submission of another URL has written its raw files
\* and not yet saved its entry.
C19_Witness ==
    /\ stateFile.kind = "ledger"
    /\ Len(stateFile.entries) = 1
    /\ mdFiles[stateFile.entries[1].id].exists
    /\ \E q \in Procs :
         /\ pc[q] = "open_w"
         /\ RequestId(req[q].url) \notin IdsOf(stateFile.entries)
         /\ mdFiles[RequestId(req[q].url)].exists

\* C20: when convert_url raises, the request ends there with status 500, and
\* state.json, the raw files and the derived files are as they were.
C20_ConversionFailureIsClean ==
    [][\A p \in Procs :
         (Leaves(p, "convert") /\ pc'[p] # "save_html")
         => /\ pc'[p] = "done"
            /\ resp'[p].status = 500
            /\ stateFile' = stateFile
            /\ files' = files]_vars

\* C20: a submission failed in convert_url while state.json held a ledger and
\* the feeds of an earlier submission were in place.
C20_Witness ==
    /\ \E p \in Procs : pc[p] = "done" /\ resp[p].error = "conversion"
    /\ stateFile.kind = "ledger"
    /\ Len(stateFile.entries) = 1
    /\ feedRss.exists /\ feedAtom.exists /\ feedMd.exists

====
